---- MODULE Spec2Model ----
(***************************************************************************)
(* A model of snp-dists (src/main.c): the resolution table, the pairwise   *)
(* distance function, the alignment loading loop with its validation, and  *)
(* the matrix output loop.  A symbol is a one-character string; a sequence *)
(* of bases is a tuple of symbols.  Arrays that are 0-based in the source  *)
(* are 1-based tuples here, the loop counters keep the source's values.    *)
(* Standard output is a tuple of lines, a line being its fields and the    *)
(* separator written between them.  The diagnostic stream (and with it the *)
(* -q option, which only silences it) is not part of the state.            *)
(* file is the history of the records kseq_read() has returned so far and  *)
(* ndist counts the calls of distance(); neither is read by the program.   *)
(***************************************************************************)
EXTENDS Integers, Sequences, FiniteSets, TLC

(* ---------------- bounds of the model ---------------- *)

\* capacity of the seq/name arrays (100000 in the source, scaled down)
MAX_SEQ == 2

\* longest sequence enumerated exhaustively over InputChars
MaxLen == 1

(* ---------------- alphabet ---------------- *)

IGNORE_CHAR == "."

\* what printf("%s %s", EXENAME, VERSION) writes
CornerLabel == "snp-dists 0.6.3"

LowerCase == <<"a","b","c","d","e","f","g","h","i","j","k","l","m",
               "n","o","p","q","r","s","t","u","v","w","x","y","z">>

UpperCase == <<"A","B","C","D","E","F","G","H","I","J","K","L","M",
               "N","O","P","Q","R","S","T","U","V","W","X","Y","Z">>

\* the IUPAC nucleotide codes
IUPAC == {"A","C","G","T","R","Y","S","W","K","M","B","D","H","V","N"}

\* the byte values the model indexes the table with
Symbols == IUPAC \cup {"a","c","g","t"} \cup {IGNORE_CHAR, "-"}

\* characters of the exhaustively enumerated input sequences
InputChars == {"A","T","W"}

\* the named records of the scenarios: S1, S2, S3 of the three-sequence
\* example, the lower-case record and the record holding the sentinel
ScenarioRecords ==
  { [name |-> "S1", seq |-> <<"A","C","G","T">>],
    [name |-> "S2", seq |-> <<"A","C","G","A">>],
    [name |-> "S3", seq |-> <<"N","N","N","N">>],
    [name |-> "S4", seq |-> <<"a","c","g","t">>],
    [name |-> "S5", seq |-> <<"A","C",".","T">>] }

\* every sequence of at most MaxLen characters of InputChars
ShortSeqs == UNION { [1..k -> InputChars] : k \in 0..MaxLen }

\* what one successful kseq_read() leaves in kseq: a name and a sequence
Records == ScenarioRecords \cup [name : {"X"}, seq : ShortSeqs]

VARIABLES pc, table, csv, corner, allchars, keepcase, fp,
          seq, name, N, L, j, stdout, exit_status, file, ndist

vars == <<pc, table, csv, corner, allchars, keepcase, fp,
          seq, name, N, L, j, stdout, exit_status, file, ndist>>

(* ---------------- the resolution table ---------------- *)

\* static int table[256][256] = {0}
ZeroTable == [x \in Symbols |-> [y \in Symbols |-> 0]]

\* the cells init_table() assigns 1
init_table_cells_oneway ==
  { <<"A","C">>, <<"A","G">>, <<"A","T">>,
    <<"C","A">>, <<"C","G">>, <<"C","T">>,
    <<"G","A">>, <<"G","C">>, <<"G","T">>,
    <<"T","A">>, <<"T","C">>, <<"T","G">>,
    <<"W","T">> }

init_table_cells ==
  { <<"A","C">>, <<"A","G">>, <<"A","T">>,
    <<"C","A">>, <<"C","G">>, <<"C","T">>,
    <<"G","A">>, <<"G","C">>, <<"G","T">>,
    <<"T","A">>, <<"T","C">>, <<"T","G">>,
    <<"W","T">>, <<"T","W">> }

\* the table after init_table() ran on table t
TableAfterInit(t) ==
  [x \in Symbols |-> [y \in Symbols |->
      IF <<x, y>> \in init_table_cells THEN 1 ELSE t[x][y]]]

(* ---------------- distance() ---------------- *)

RECURSIVE distance_loop(_, _, _, _, _, _)
distance_loop(t, a, b, len, i, diff) ==
  IF i < len
    THEN distance_loop(t, a, b, len, i + 1,
           IF a[i+1] # b[i+1] /\ a[i+1] # IGNORE_CHAR /\ b[i+1] # IGNORE_CHAR
             THEN diff + t[a[i+1]][b[i+1]]
             ELSE diff)
    ELSE diff

\* the loop without the sentinel test
RECURSIVE distance_loop_nosentinel(_, _, _, _, _, _)
distance_loop_nosentinel(t, a, b, len, i, diff) ==
  IF i < len
    THEN distance_loop_nosentinel(t, a, b, len, i + 1,
           IF a[i+1] # b[i+1] THEN diff + t[a[i+1]][b[i+1]] ELSE diff)
    ELSE diff

\* the loop counting every differing position instead of reading the table
RECURSIVE distance_loop_count(_, _, _, _, _, _)
distance_loop_count(t, a, b, len, i, diff) ==
  IF i < len
    THEN distance_loop_count(t, a, b, len, i + 1,
           IF a[i+1] # b[i+1] /\ a[i+1] # IGNORE_CHAR /\ b[i+1] # IGNORE_CHAR
             THEN diff + 1
             ELSE diff)
    ELSE diff

distance_skipfirst(t, a, b, len) == distance_loop(t, a, b, len, 1, 0)

distance_nosentinel(t, a, b, len) == distance_loop_nosentinel(t, a, b, len, 0, 0)

distance_count(t, a, b, len) == distance_loop_count(t, a, b, len, 0, 0)

\* distance() reading table t
distance_with(t, a, b, len) == distance_loop(t, a, b, len, 0, 0)

\* distance() as the program calls it, reading the global table
distance(a, b, len) == distance_with(table, a, b, len)

(* ---------------- normalisation of a stored sequence ---------------- *)

toupper_identity(c) == c

toupper(c) ==
  IF \E k \in 1..Len(LowerCase) : LowerCase[k] = c
    THEN UpperCase[CHOOSE k \in 1..Len(LowerCase) : LowerCase[k] = c]
    ELSE c

\* for (char* s = seq[N]; *s; s++) *s = toupper(*s);
UppercaseAll(s) == [k \in 1..Len(s) |-> toupper(s[k])]

\* replace everything but A, T, C, G by the sentinel
CleanSeq(s) ==
  [k \in 1..Len(s) |->
     IF s[k] # "A" /\ s[k] # "T" /\ s[k] # "C" /\ s[k] # "G"
       THEN IGNORE_CHAR ELSE s[k]]

\* the sequence as stored for a record, under the options kc (-k) and ac (-a)
StoredSeq(s, kc, ac) ==
  LET u == IF ~kc THEN UppercaseAll(s) ELSE s
  IN  IF ~ac THEN CleanSeq(u) ELSE u

(* ---------------- validation tests of the loading loop ---------------- *)

LengthMismatch_longer(l, len) == l > len

LengthMismatch(l, len) == l # len

TooMany_off_by_one(n) == n > MAX_SEQ

TooMany(n) == n >= MAX_SEQ

(* ---------------- output ---------------- *)

sep == IF csv THEN "," ELSE "\t"

\* one line of standard output: its fields and the separator between them
Line(fields) == [sep |-> sep, fields |-> fields]

HeaderLine ==
  Line(<<IF corner THEN CornerLabel ELSE "">> \o name)

RowValues_half(r) ==
  [i \in 1..N |-> IF i >= r + 1 THEN distance(seq[r+1], seq[i], L) ELSE 0]

\* the N values of row r (0-based, as the source's j)
RowValues(r) == [i \in 1..N |-> distance(seq[r+1], seq[i], L)]

RowLine(r) == Line(<<name[r+1]>> \o RowValues(r))

(* ---------------- the program ---------------- *)

Init ==
  /\ pc = "start"
  /\ table = ZeroTable
  /\ csv = FALSE /\ corner = TRUE
  /\ allchars = FALSE /\ keepcase = FALSE
  /\ fp = "NULL"
  /\ seq = <<>> /\ name = <<>>
  /\ N = 0 /\ L = -1 /\ j = 0
  /\ stdout = <<>>
  /\ exit_status = "running"
  /\ file = <<>>
  /\ ndist = 0

Exit(status) == pc' = "exit" /\ exit_status' = status

init_table ==
  /\ pc = "start"
  /\ table' = TableAfterInit(table)
  /\ pc' = "getopt"
  /\ UNCHANGED <<csv, corner, allchars, keepcase, fp, seq, name, N, L, j,
                 stdout, exit_status, file, ndist>>

\* -h: help on standard output, success
ShowHelp ==
  /\ pc = "getopt"
  /\ stdout' = Append(stdout, [sep |-> "", fields |-> <<"help">>])
  /\ Exit("EXIT_SUCCESS")
  /\ UNCHANGED <<table, csv, corner, allchars, keepcase, fp, seq, name,
                 N, L, j, file, ndist>>

\* -v: version on standard output, success
ShowVersion ==
  /\ pc = "getopt"
  /\ stdout' = Append(stdout, [sep |-> "", fields |-> <<CornerLabel>>])
  /\ Exit("EXIT_SUCCESS")
  /\ UNCHANGED <<table, csv, corner, allchars, keepcase, fp, seq, name,
                 N, L, j, file, ndist>>

\* an unknown option, or no filename argument: help on failure
BadUsage ==
  /\ pc = "getopt"
  /\ Exit("EXIT_FAILURE")
  /\ UNCHANGED <<table, csv, corner, allchars, keepcase, fp, seq, name,
                 N, L, j, stdout, file, ndist>>

\* the options are parsed and a filename is given
ParseOptions ==
  /\ pc = "getopt"
  /\ \E c, a, k, b \in BOOLEAN :
       /\ csv' = c /\ allchars' = a /\ keepcase' = k
       /\ corner' = ~b
  /\ pc' = "gzopen"
  /\ UNCHANGED <<table, fp, seq, name, N, L, j, stdout, exit_status, file, ndist>>

OpenFails ==
  /\ pc = "gzopen"
  /\ Exit("EXIT_FAILURE")
  /\ UNCHANGED <<table, csv, corner, allchars, keepcase, fp, seq, name,
                 N, L, j, stdout, file, ndist>>

OpenFile ==
  /\ pc = "gzopen"
  /\ fp' = "open"
  /\ pc' = "read"
  /\ UNCHANGED <<table, csv, corner, allchars, keepcase, seq, name,
                 N, L, j, stdout, exit_status, file, ndist>>

\* L after "if (L < 0) L = l;"
FirstL(l) == IF L < 0 THEN l ELSE L

\* kseq_read() returned record r whose length differs from L
ReadMismatch ==
  /\ pc = "read"
  /\ \E r \in Records :
       /\ LengthMismatch(Len(r.seq), FirstL(Len(r.seq)))
       /\ L' = FirstL(Len(r.seq))
       /\ file' = Append(file, r)
  /\ Exit("EXIT_FAILURE")
  /\ UNCHANGED <<table, csv, corner, allchars, keepcase, fp, seq, name,
                 N, j, stdout, ndist>>

\* kseq_read() returned a record of the right length, the arrays are full
ReadTooMany ==
  /\ pc = "read"
  /\ \E r \in Records :
       /\ ~LengthMismatch(Len(r.seq), FirstL(Len(r.seq)))
       /\ TooMany(N)
       /\ L' = FirstL(Len(r.seq))
       /\ file' = Append(file, r)
  /\ Exit("EXIT_FAILURE")
  /\ UNCHANGED <<table, csv, corner, allchars, keepcase, fp, seq, name,
                 N, j, stdout, ndist>>

\* kseq_read() returned a record that is stored, normalised and counted
ReadStore ==
  /\ pc = "read"
  /\ \E r \in Records :
       /\ ~LengthMismatch(Len(r.seq), FirstL(Len(r.seq)))
       /\ ~TooMany(N)
       /\ L' = FirstL(Len(r.seq))
       /\ seq' = Append(seq, StoredSeq(r.seq, keepcase, allchars))
       /\ name' = Append(name, r.name)
       /\ file' = Append(file, r)
  /\ N' = N + 1
  /\ UNCHANGED <<pc, table, csv, corner, allchars, keepcase, fp, j,
                 stdout, exit_status, ndist>>

\* kseq_read() returned a negative value and no record was stored
ReadEndEmpty ==
  /\ pc = "read"
  /\ N < 1
  /\ fp' = "closed"
  /\ Exit("EXIT_FAILURE")
  /\ UNCHANGED <<table, csv, corner, allchars, keepcase, seq, name,
                 N, L, j, stdout, file, ndist>>

\* kseq_read() returned a negative value after at least one record
ReadEnd ==
  /\ pc = "read"
  /\ ~(N < 1)
  /\ fp' = "closed"
  /\ pc' = "header"
  /\ UNCHANGED <<table, csv, corner, allchars, keepcase, seq, name,
                 N, L, j, stdout, exit_status, file, ndist>>

PrintHeader ==
  /\ pc = "header"
  /\ stdout' = Append(stdout, HeaderLine)
  /\ j' = 0
  /\ pc' = "rows"
  /\ UNCHANGED <<table, csv, corner, allchars, keepcase, fp, seq, name,
                 N, L, exit_status, file, ndist>>

\* one iteration of the outer output loop: a whole row
PrintRow ==
  /\ pc = "rows"
  /\ j < N
  /\ stdout' = Append(stdout, RowLine(j))
  /\ ndist' = ndist + N
  /\ j' = j + 1
  /\ UNCHANGED <<pc, table, csv, corner, allchars, keepcase, fp, seq, name,
                 N, L, exit_status, file>>

\* the output loop is over: free the memory and return 0
Finish ==
  /\ pc = "rows"
  /\ ~(j < N)
  /\ seq' = <<>> /\ name' = <<>>
  /\ Exit("EXIT_SUCCESS")
  /\ UNCHANGED <<table, csv, corner, allchars, keepcase, fp,
                 N, L, j, stdout, file, ndist>>

Next ==
  \/ init_table
  \/ ShowHelp
  \/ ShowVersion
  \/ BadUsage
  \/ ParseOptions
  \/ OpenFails
  \/ OpenFile
  \/ ReadMismatch
  \/ ReadTooMany
  \/ ReadStore
  \/ ReadEndEmpty
  \/ ReadEnd
  \/ PrintHeader
  \/ PrintRow
  \/ Finish

Spec == Init /\ [][Next]_vars

(* ======================= properties ======================= *)

\* the definite bases an IUPAC code can represent (IUPAC nucleotide standard)
Bases(x) ==
  CASE x = "A" -> {"A"}
    [] x = "C" -> {"C"}
    [] x = "G" -> {"G"}
    [] x = "T" -> {"T"}
    [] x = "R" -> {"A","G"}
    [] x = "Y" -> {"C","T"}
    [] x = "S" -> {"G","C"}
    [] x = "W" -> {"A","T"}
    [] x = "K" -> {"G","T"}
    [] x = "M" -> {"A","C"}
    [] x = "B" -> {"C","G","T"}
    [] x = "D" -> {"A","G","T"}
    [] x = "H" -> {"A","C","T"}
    [] x = "V" -> {"A","C","G"}
    [] x = "N" -> {"A","C","G","T"}

Success == pc = "exit" /\ exit_status = "EXIT_SUCCESS"

Failure == pc = "exit" /\ exit_status = "EXIT_FAILURE"

\* a run that loaded an alignment and wrote the whole matrix
MatrixEmitted == Success /\ fp = "closed"

\* the value written in row r, column c (1-based) of the matrix
Cell(r, c) == stdout[r + 1].fields[c + 1]

\* the records whose length differs from the first record's
BadLength == { k \in 1..Len(file) : Len(file[k].seq) # Len(file[1].seq) }

\* C1: after init_table(), every two IUPAC codes whose sets of possible bases
\* are disjoint have table entry 1, and distance() adds 1 for them.
C1_DisjointCodesDiffer ==
  pc # "start" =>
    \A x, y \in IUPAC :
      (Bases(x) \cap Bases(y) = {}) =>
        table[x][y] = 1 /\ distance(<<x>>, <<y>>, 1) = 1

\* C2: after init_table(), every two IUPAC codes whose sets of possible bases
\* intersect have table entry 0, and distance() adds 0 for them.
C2_CompatibleCodesAgree ==
  pc # "start" =>
    \A x, y \in IUPAC :
      (Bases(x) \cap Bases(y) # {}) =>
        table[x][y] = 0 /\ distance(<<x>>, <<y>>, 1) = 0

\* the contribution of one position as the distance contract words it
PositionValue(x, y) ==
  IF x = y \/ x = IGNORE_CHAR \/ y = IGNORE_CHAR THEN 0 ELSE table[x][y]

RECURSIVE PositionSum(_, _, _)
PositionSum(a, b, k) ==
  IF k = 0 THEN 0 ELSE PositionSum(a, b, k - 1) + PositionValue(a[k], b[k])

\* C3: for stored sequences a and b of length L, distance(a, b, L) is the sum
\* over the positions of 0 (equal symbols, or a sentinel) or the table entry,
\* it lies between 0 and L, and the step that calls distance() changes neither
\* the table nor the sequences.
C3_DistanceIsPositionSum ==
  /\ [](\A p, q \in 1..Len(seq) :
          /\ distance(seq[p], seq[q], L) = PositionSum(seq[p], seq[q], L)
          /\ distance(seq[p], seq[q], L) \in 0..L)
  /\ [][ndist' # ndist => table' = table /\ seq' = seq]_vars

C3_Witness ==
  /\ pc = "rows" /\ ndist > 0
  /\ \E p, q \in 1..Len(seq) :
       /\ distance(seq[p], seq[q], L) = 1
       /\ L = 4
       /\ \E i \in 1..L : seq[p][i] = IGNORE_CHAR

\* C4: when the whole matrix is written, it has N rows of N values, header
\* and row names are in input order, and the value in row r, column c is the
\* distance between the stored sequences of records r and c.
C4_MatrixIsAllPairs ==
  MatrixEmitted =>
    /\ N = Len(file)
    /\ Len(stdout) = N + 1
    /\ Len(stdout[1].fields) = N + 1
    /\ \A c \in 1..N : stdout[1].fields[c + 1] = file[c].name
    /\ \A r \in 1..N :
         /\ Len(stdout[r + 1].fields) = N + 1
         /\ stdout[r + 1].fields[1] = file[r].name
         /\ \A c \in 1..N :
              Cell(r, c) = distance(StoredSeq(file[r].seq, keepcase, allchars),
                                    StoredSeq(file[c].seq, keepcase, allchars), L)

C4_Witness ==
  /\ MatrixEmitted
  /\ N >= 2
  /\ file[1].name = "S2" /\ file[2].name = "S1"
  /\ stdout[1].fields[2] = "S2" /\ stdout[2].fields[1] = "S2"
  /\ Cell(2, 1) = 1

\* C5: under every combination of options the written rows have a zero
\* diagonal and mirror each other, and the table is symmetric.
C5_MatrixSymmetricZeroDiagonal ==
  /\ \A x, y \in Symbols : table[x][y] = table[y][x]
  /\ (pc = "rows" \/ MatrixEmitted) =>
       \A r, c \in 1..(Len(stdout) - 1) :
         /\ Cell(r, r) = 0
         /\ Cell(r, c) = Cell(c, r)

C5_Witness ==
  /\ MatrixEmitted /\ allchars /\ keepcase
  /\ N >= 2
  /\ Cell(1, 2) = 1 /\ Cell(2, 1) = 1
  /\ file[1].seq = <<"W">> /\ file[2].seq = <<"T">>

\* a table that counts every pair of symbols as a substitution
OnesTable == [x \in Symbols |-> [y \in Symbols |-> 1]]

\* a position holding the sentinel contributes 0 under table t
SentinelContributesZero(t) ==
  \A x \in Symbols :
    /\ distance_with(t, <<IGNORE_CHAR>>, <<x>>, 1) = 0
    /\ distance_with(t, <<x>>, <<IGNORE_CHAR>>, 1) = 0

\* putting the sentinel at position i of a, of b or of both does not increase
\* the distance under table t, and removes exactly that position's share
SentinelNeverIncreases(t, a, b, i) ==
  LET a2 == [a EXCEPT ![i] = IGNORE_CHAR]
      b2 == [b EXCEPT ![i] = IGNORE_CHAR]
      d  == distance_with(t, a, b, L)
  IN  /\ distance_with(t, a2, b, L) <= d
      /\ distance_with(t, a, b2, L) <= d
      /\ distance_with(t, a2, b2, L) <= d
      /\ distance_with(t, a2, b, L) = d - distance_with(t, <<a[i]>>, <<b[i]>>, 1)

\* C6: for the sequences of every loaded alignment, replacing a symbol of
\* either sequence (or of both) by the sentinel never increases the distance,
\* and a position holding the sentinel contributes 0 whatever the table holds
\* (the program's table, or a table of ones) and whatever the other symbol is.
C6_SentinelAbsorbs ==
  /\ SentinelContributesZero(table)
  /\ SentinelContributesZero(OnesTable)
  /\ (pc = "rows" /\ j = N) =>
       \A p, q \in 1..Len(seq) : \A i \in 1..L :
         /\ SentinelNeverIncreases(table, seq[p], seq[q], i)
         /\ SentinelNeverIncreases(OnesTable, seq[p], seq[q], i)

C6_Witness ==
  /\ pc = "rows" /\ j = N /\ ndist > 0
  /\ \E p, q \in 1..Len(seq) : \E i \in 1..L :
       /\ seq[p][i] # IGNORE_CHAR /\ seq[q][i] # IGNORE_CHAR
       /\ distance(seq[p], seq[q], L) = 1
       /\ distance([seq[p] EXCEPT ![i] = IGNORE_CHAR], seq[q], L) = 0

\* C7: L is the length of the first record read and never changes; a later
\* record of another length ends the run with a failure at that record,
\* before any distance is computed and before anything is written.
C7_LengthInvariant ==
  /\ [](/\ Len(file) >= 1 => L = Len(file[1].seq)
        /\ \A k \in 1..Len(seq) : Len(seq[k]) = L
        /\ BadLength # {} =>
             /\ Failure
             /\ BadLength = {Len(file)}
             /\ N = Len(file) - 1
             /\ ndist = 0
             /\ stdout = <<>>)
  /\ [][L >= 0 => L' = L]_vars

C7_Witness ==
  /\ Failure
  /\ Len(file) = 2
  /\ Len(file[2].seq) < Len(file[1].seq)
  /\ N = 1

\* C8: no record (zero records) or more than MAX_SEQ records end the run with
\* a failure and no output; 1 to MAX_SEQ records of equal length are never
\* rejected; no record is stored at an index at or beyond MAX_SEQ.
C8_SequenceCount ==
  /\ (fp # "NULL" /\ pc # "read" /\ Len(file) = 0) =>
        Failure /\ stdout = <<>>
  /\ Len(file) > MAX_SEQ => Failure /\ stdout = <<>> /\ ndist = 0
  /\ (Failure /\ fp # "NULL" /\ Len(file) \in 1..MAX_SEQ) => BadLength # {}
  /\ N <= MAX_SEQ /\ Len(seq) <= MAX_SEQ /\ Len(name) <= MAX_SEQ

C8_Witness ==
  /\ Failure
  /\ Len(file) = MAX_SEQ + 1
  /\ BadLength = {}
  /\ N = MAX_SEQ /\ Len(seq) = MAX_SEQ

\* the input holds exactly the records acgt and ACGT, in this order
CaseScenario ==
  /\ Len(file) = 2
  /\ file[1].seq = <<"a","c","g","t">>
  /\ file[2].seq = <<"A","C","G","T">>

BaseUpper(c) ==
  CASE c = "a" -> "A" [] c = "c" -> "C" [] c = "g" -> "G" [] c = "t" -> "T"
    [] OTHER -> c

\* positions where both raw symbols, uppercased, are different bases of ACGT
DefiniteDifferences(a, b) ==
  { i \in 1..Len(a) :
      /\ BaseUpper(a[i]) \in {"A","C","G","T"}
      /\ BaseUpper(b[i]) \in {"A","C","G","T"}
      /\ BaseUpper(a[i]) # BaseUpper(b[i]) }


\* C10: under the default options every stored symbol is A, C, G, T or the
\* sentinel, and every written cell is the number of positions at which the
\* uppercased input symbols are different bases of ACGT.
C10_DefaultCountsDefiniteBases ==
  (~keepcase /\ ~allchars) =>
    /\ \A k \in 1..Len(seq) : \A i \in 1..Len(seq[k]) :
         seq[k][i] \in {"A","C","G","T",IGNORE_CHAR}
    /\ (pc = "rows" \/ MatrixEmitted) =>
         \A r \in 1..(Len(stdout) - 1) : \A c \in 1..N :
           /\ Cell(r, c) =
                Cardinality(DefiniteDifferences(file[r].seq, file[c].seq))
           /\ (file[r].seq = <<"A","C","G","T">> /\
               file[c].seq = <<"N","N","N","N">>) => Cell(r, c) = 0
           /\ (file[r].seq = <<"A","C","G","T">> /\
               file[c].seq = <<"A","C","G","A">>) => Cell(r, c) = 1
           /\ (file[r].seq = <<"a","c","g","t">> /\
               file[c].seq = <<"A","C","G","T">>) => Cell(r, c) = 0

C10_Witness ==
  /\ MatrixEmitted /\ ~keepcase /\ ~allchars
  /\ N >= 2
  /\ file[1].seq = <<"a","c","g","t">>
  /\ file[2].seq = <<"A","C","G","A">>
  /\ Cell(1, 2) = 1

====
